---------------------------- MODULE Spec2Model ----------------------------
(***************************************************************************)
(* A model of the DZI tiler of src/src/lib.rs: the construction of a       *)
(* TileCreator from raw RGB bytes, the level and tile geometry, and the    *)
(* sequence of file-system operations create_tiles performs.               *)
(*                                                                         *)
(* Numbers.  The code's u32 values are held as their two's-complement      *)
(* residue: an integer v >= 0 stands for itself, an integer v < 0 stands   *)
(* for the u32 value 2^32 + v (a subtraction that went below zero and      *)
(* wrapped).  Wrapping +, - and * on u32 are then the integer +, - and *,  *)
(* and only the comparisons differ (ULess, UMin).  The f64 computations of *)
(* the code (log2, powi, ceil, division) are exact on the values involved  *)
(* (integers below 2^32 times powers of two) and are modelled by the       *)
(* integer computation of the same value.  The image crate's from_raw,     *)
(* resize and crop are modelled by what they do to the dimensions; the     *)
(* rounding inside resize agrees with f64 on every input enumerated here.  *)
(***************************************************************************)
EXTENDS Integers, Sequences, FiniteSets

\* Bounds of the enumerated inputs.
MaxDim == 5
MaxTileSize == 2
MaxOverlap == 3
LenSlack == 1

\* The image and the configuration of the repository's tests.
TestWidth == 5184
TestHeight == 3456
TestTileSize == 254
TestTileOverlap == 1

VARIABLES
    overflow_checks, \* build profile: TRUE (debug) panics on u32 overflow, FALSE (release) wraps
    pc,              \* position of the caller / of create_tiles
    args,            \* the arguments of the new_from_rgb call
    creator,         \* the TileCreator (Self), once constructed
    new_result,      \* what new_from_rgb returned
    level,           \* create_tiles: l / create_level: level
    col,             \* create_level: col
    row,             \* create_level: row
    grid,            \* create_level: (c, r)
    li,              \* create_level: dimensions of the level image li
    fs,              \* the file-system operations performed so far, in order
    tiles_result     \* what create_tiles returned

vars == <<overflow_checks, pc, args, creator, new_result, level, col, row, grid, li, fs, tiles_result>>

NoCreator == [image |-> <<0, 0>>, tile_size |-> 0, tile_overlap |-> 0, levels |-> 0]
NoArgs == [rgb_len |-> 0, width |-> 0, height |-> 0, tile_size |-> 0, tile_overlap |-> 0]

-----------------------------------------------------------------------------
\* u32 arithmetic on residues

\* a < b as u32 values
ULess(a, b) == IF (a < 0) = (b < 0) THEN a < b ELSE b < 0

\* u32::min
UMin(a, b) == IF ULess(b, a) THEN b ELSE a

\* a - b goes below zero
SubOverflows(a, b) == ULess(a, b)

\* a + b reaches 2^32
AddOverflows(a, b) ==
    IF a < 0 /\ b < 0 THEN TRUE
    ELSE IF a < 0 \/ b < 0 THEN a + b >= 0
    ELSE FALSE

Max(a, b) == IF a >= b THEN a ELSE b

RECURSIVE Pow2(_)
Pow2(n) == IF n <= 0 THEN 1 ELSE 2 * Pow2(n - 1)

\* (n as f64).log2().ceil() for n >= 1: the least k with 2^k >= n
RECURSIVE CeilLog2From(_, _)
CeilLog2From(n, k) == IF Pow2(k) >= n THEN k ELSE CeilLog2From(n, k + 1)

\* (n as f64).log2() rounded down: the greatest k with 2^k <= n
RECURSIVE FloorLog2From(_, _)
FloorLog2From(n, k) == IF Pow2(k + 1) > n THEN k ELSE FloorLog2From(n, k + 1)

\* (a as f64 / b as f64).ceil() as u32, for a >= 0 and b > 0
CeilDiv(a, b) == (a + b - 1) \div b

-----------------------------------------------------------------------------
\* Geometry

\* Variant: the logarithm rounded down, which gives the bit length.
calculate_levels_floor(src_image_width, src_image_height) ==
    FloorLog2From(Max(src_image_height, src_image_width), 0) + 1

\* Variant: the + 1 left out.
calculate_levels_no_base(src_image_width, src_image_height) ==
    CeilLog2From(Max(src_image_height, src_image_width), 0)

\* (max(h, w) as f64).log2().ceil() as u32 + 1
calculate_levels(src_image_width, src_image_height) ==
    CeilLog2From(Max(src_image_height, src_image_width), 0) + 1

check_level(s, l) == IF l >= s.levels THEN "UnexpectedError" ELSE "Ok"

\* The scale 0.5^(levels - 1 - level) is held by its denominator den: scale = 1 / den.
\* Variant: the exponent levels - level.
get_scale_off_by_one(s, lvl) ==
    IF check_level(s, lvl) # "Ok" THEN [tag |-> "UnexpectedError"]
    ELSE [tag |-> "Ok", den |-> Pow2(s.levels - lvl)]

\* 0.5f64.powi(levels - 1 - level)
get_scale(s, lvl) ==
    IF check_level(s, lvl) # "Ok" THEN [tag |-> "UnexpectedError"]
    ELSE [tag |-> "Ok", den |-> Pow2(s.levels - 1 - lvl)]

\* Variant: round() in place of ceil().
get_dimensions_round(s, lvl) ==
    IF check_level(s, lvl) # "Ok" THEN [tag |-> "UnexpectedError"]
    ELSE LET sc == get_scale(s, lvl) IN
         IF sc.tag # "Ok" THEN sc
         ELSE [tag |-> "Ok",
               w |-> (2 * s.image[1] + sc.den) \div (2 * sc.den),
               h |-> (2 * s.image[2] + sc.den) \div (2 * sc.den)]

\* ((w as f64 * s).ceil(), (h as f64 * s).ceil())
get_dimensions(s, lvl) ==
    IF check_level(s, lvl) # "Ok" THEN [tag |-> "UnexpectedError"]
    ELSE LET sc == get_scale(s, lvl) IN
         IF sc.tag # "Ok" THEN sc
         ELSE [tag |-> "Ok",
               w |-> CeilDiv(s.image[1], sc.den),
               h |-> CeilDiv(s.image[2], sc.den)]

get_tile_count(s, l) ==
    LET d == get_dimensions(s, l) IN
    IF d.tag # "Ok" THEN d
    ELSE [tag |-> "Ok",
          cols |-> CeilDiv(d.w, s.tile_size),
          rows |-> CeilDiv(d.h, s.tile_size)]

\* With overflow checks the first u32 operation that overflows panics; without
\* them every operation wraps.  The products and the sums of tile_size and
\* tile_overlap stay far below 2^32 on the inputs enumerated here.
get_tile_bounds(s, lvl, c, r) ==
    LET offset_x == IF c = 0 THEN 0 ELSE s.tile_overlap
        offset_y == IF r = 0 THEN 0 ELSE s.tile_overlap
        x == c * s.tile_size - offset_x
        y == r * s.tile_size - offset_y
        d == get_dimensions(s, lvl)
        w0 == s.tile_size + (IF c = 0 THEN 1 ELSE 2) * s.tile_overlap
        h0 == s.tile_size + (IF r = 0 THEN 1 ELSE 2) * s.tile_overlap
        w == UMin(w0, d.w - x)
        h == UMin(h0, d.h - y)
    IN
    IF overflow_checks /\ (SubOverflows(c * s.tile_size, offset_x)
                           \/ SubOverflows(r * s.tile_size, offset_y))
    THEN [tag |-> "Panic"]
    ELSE IF d.tag # "Ok" THEN d
    ELSE IF overflow_checks /\ (SubOverflows(d.w, x) \/ SubOverflows(d.h, y)
                                \/ AddOverflows(x, w) \/ AddOverflows(y, h))
    THEN [tag |-> "Panic"]
    ELSE [tag |-> "Ok", x0 |-> x, y0 |-> y, x1 |-> x + w, y1 |-> y + h]


-----------------------------------------------------------------------------
\* The level image

\* (side as f64 * ratio).round() as u64 for ratio = n as f64 / d as f64: the nearest
\* integer to side * n / d, a tie rounding away from zero.
Scaled(side, n, d) == (2 * side * n + d) \div (2 * d)

\* DynamicImage::resize(nwidth, nheight, _) keeps the aspect ratio: the image is
\* scaled by the smaller of the two ratios nwidth / width and nheight / height, and
\* each side is at least 1.
resize(image, nwidth, nheight) ==
    LET width == image[1]
        height == image[2]
    IN
    IF nwidth * height <= nheight * width
    THEN <<Max(Scaled(width, nwidth, width), 1), Max(Scaled(height, nwidth, width), 1)>>
    ELSE <<Max(Scaled(width, nheight, height), 1), Max(Scaled(height, nheight, height), 1)>>

\* The dimensions of the level image, or the error.
get_level_image(s, lvl) ==
    IF check_level(s, lvl) # "Ok" THEN [tag |-> "UnexpectedError"]
    ELSE LET d == get_dimensions(s, lvl) IN
         IF d.tag # "Ok" THEN d
         ELSE [tag |-> "Ok", image |-> resize(s.image, d.w, d.h)]

\* DynamicImage::crop(x, y, width, height) on an image of dimensions im: the
\* rectangle is cut down to the image.
crop(im, x, y, width, height) ==
    LET cx == UMin(x, im[1])
        cy == UMin(y, im[2])
    IN [x |-> cx, y |-> cy,
        width |-> UMin(width, im[1] - cx),
        height |-> UMin(height, im[2] - cy)]

-----------------------------------------------------------------------------
\* Inputs

Input(l, w, h, ts, ov) ==
    [rgb_len |-> l, width |-> w, height |-> h, tile_size |-> ts, tile_overlap |-> ov]

TestInput ==
    Input(TestWidth * TestHeight * 3, TestWidth, TestHeight, TestTileSize, TestTileOverlap)

Inputs ==
    { Input(w * h * 3 + d, w, h, ts, ov) :
        w \in 1..MaxDim, h \in 1..MaxDim, d \in (0 - LenSlack)..LenSlack,
        ts \in 1..MaxTileSize, ov \in 0..MaxOverlap }
    \cup {TestInput}

-----------------------------------------------------------------------------
\* Operations

Init ==
    /\ overflow_checks \in BOOLEAN
    /\ pc = "new"
    /\ args = NoArgs
    /\ creator = NoCreator
    /\ new_result = "none"
    /\ level = 0
    /\ col = 0
    /\ row = 0
    /\ grid = <<0, 0>>
    /\ li = <<0, 0>>
    /\ fs = <<>>
    /\ tiles_result = "none"

\* RgbImage::from_raw(width, height, buf) is Some when the buffer holds at least
\* width * height * 3 bytes.
from_raw(width, height, len) == width * height * 3 <= len

new_from_rgb(in) ==
    /\ pc = "new"
    /\ args' = in
    /\ IF from_raw(in.width, in.height, in.rgb_len)
       THEN /\ creator' = [image |-> <<in.width, in.height>>,
                           tile_size |-> in.tile_size,
                           tile_overlap |-> in.tile_overlap,
                           levels |-> calculate_levels(in.width, in.height)]
            /\ new_result' = "Ok"
            /\ pc' = "created"
       ELSE /\ creator' = creator
            /\ new_result' = "IncorrectRGBInputDimensions"
            /\ pc' = "rejected"
    /\ UNCHANGED <<overflow_checks, level, col, row, grid, li, fs, tiles_result>>

\* for l in 0..self.levels: the loop reaches level l, or is over.
ForLevel(l) ==
    IF l < creator.levels
    THEN /\ pc' = "create_dir_all"
         /\ level' = l
    ELSE /\ pc' = "File::create"
         /\ level' = level

create_tiles ==
    /\ pc = "created"
    /\ ForLevel(0)
    /\ UNCHANGED <<overflow_checks, args, creator, new_result, col, row, grid, li, fs, tiles_result>>

\* create_level: the directory is created, the level image rendered and the grid
\* computed; the loops over col and row start.
create_level ==
    /\ pc = "create_dir_all"
    /\ fs' = Append(fs, [op |-> "create_dir_all", ok |-> TRUE, level |-> level])
    /\ LET im == get_level_image(creator, level)
           cnt == get_tile_count(creator, level)
       IN
       IF im.tag # "Ok" \/ cnt.tag # "Ok"
       THEN /\ tiles_result' = "UnexpectedError"
            /\ pc' = "returned"
            /\ UNCHANGED <<level, col, row, grid, li>>
       ELSE /\ li' = im.image
            /\ grid' = <<cnt.cols, cnt.rows>>
            /\ col' = 0
            /\ row' = 0
            /\ tiles_result' = tiles_result
            /\ IF ULess(0, cnt.cols) /\ ULess(0, cnt.rows)
               THEN pc' = "save" /\ level' = level
               ELSE ForLevel(level + 1)
    /\ UNCHANGED <<overflow_checks, args, creator, new_result>>

create_level_dir_err ==
    /\ pc = "create_dir_all"
    /\ fs' = Append(fs, [op |-> "create_dir_all", ok |-> FALSE, level |-> level])
    /\ tiles_result' = "IOError"
    /\ pc' = "returned"
    /\ UNCHANGED <<overflow_checks, args, creator, new_result, level, col, row, grid, li>>

\* The tile of (level, col, row): its bounds, the level image it is cut from and
\* the rectangle crop cuts; ok tells whether save wrote the file.
Tile(b, ok) ==
    [op |-> "save", ok |-> ok, level |-> level, col |-> col, row |-> row,
     bounds |-> <<b.x0, b.y0, b.x1, b.y1>>,
     li |-> li,
     crop |-> crop(li, b.x0, b.y0, b.x1 - b.x0, b.y1 - b.y0)]

\* Variant: the row loop stops one row early.
NextTile_short_rows ==
    IF row + 1 < grid[2] - 1
    THEN /\ row' = row + 1
         /\ UNCHANGED <<pc, level, col>>
    ELSE IF col + 1 < grid[1]
    THEN /\ col' = col + 1
         /\ row' = 0
         /\ UNCHANGED <<pc, level>>
    ELSE /\ ForLevel(level + 1)
         /\ UNCHANGED <<col, row>>

\* The loops of create_level move on from (col, row).
NextTile ==
    IF row + 1 < grid[2]
    THEN /\ row' = row + 1
         /\ UNCHANGED <<pc, level, col>>
    ELSE IF col + 1 < grid[1]
    THEN /\ col' = col + 1
         /\ row' = 0
         /\ UNCHANGED <<pc, level>>
    ELSE /\ ForLevel(level + 1)
         /\ UNCHANGED <<col, row>>

create_level_tile ==
    /\ pc = "save"
    /\ LET b == get_tile_bounds(creator, level, col, row) IN
       /\ b.tag # "Panic"
       /\ IF b.tag # "Ok"
          THEN /\ tiles_result' = "UnexpectedError"
               /\ pc' = "returned"
               /\ UNCHANGED <<level, col, row, fs>>
          ELSE /\ fs' = Append(fs, Tile(b, TRUE))
               /\ NextTile
               /\ tiles_result' = tiles_result
    /\ UNCHANGED <<overflow_checks, args, creator, new_result, grid, li>>

\* Variant: a tile whose save fails is skipped and the loops go on.
create_level_tile_skip ==
    /\ pc = "save"
    /\ LET b == get_tile_bounds(creator, level, col, row) IN
       /\ b.tag = "Ok"
       /\ fs' = Append(fs, Tile(b, FALSE))
    /\ NextTile
    /\ UNCHANGED <<overflow_checks, args, creator, new_result, grid, li, tiles_result>>

create_level_tile_err ==
    /\ pc = "save"
    /\ LET b == get_tile_bounds(creator, level, col, row) IN
       /\ b.tag = "Ok"
       /\ fs' = Append(fs, Tile(b, FALSE))
    /\ tiles_result' = "ImageError"
    /\ pc' = "returned"
    /\ UNCHANGED <<overflow_checks, args, creator, new_result, level, col, row, grid, li>>

\* get_tile_bounds overflows in a build with overflow checks: the thread panics.
create_level_tile_panic ==
    /\ pc = "save"
    /\ get_tile_bounds(creator, level, col, row).tag = "Panic"
    /\ pc' = "panicked"
    /\ UNCHANGED <<overflow_checks, args, creator, new_result, level, col, row, grid, li, fs, tiles_result>>

\* The descriptor: File::create, then write_all of the formatted text, of which the
\* four values it is formatted from are kept.
create_tiles_file_create ==
    /\ pc = "File::create"
    /\ fs' = Append(fs, [op |-> "File::create", ok |-> TRUE])
    /\ pc' = "write_all"
    /\ UNCHANGED <<overflow_checks, args, creator, new_result, level, col, row, grid, li, tiles_result>>

create_tiles_file_create_err ==
    /\ pc = "File::create"
    /\ fs' = Append(fs, [op |-> "File::create", ok |-> FALSE])
    /\ tiles_result' = "IOError"
    /\ pc' = "returned"
    /\ UNCHANGED <<overflow_checks, args, creator, new_result, level, col, row, grid, li>>

Descriptor(ok) ==
    [op |-> "write_all", ok |-> ok,
     TileSize |-> creator.tile_size, Overlap |-> creator.tile_overlap,
     Width |-> creator.image[1], Height |-> creator.image[2]]

create_tiles_write_all ==
    /\ pc = "write_all"
    /\ fs' = Append(fs, Descriptor(TRUE))
    /\ tiles_result' = "Ok"
    /\ pc' = "returned"
    /\ UNCHANGED <<overflow_checks, args, creator, new_result, level, col, row, grid, li>>

create_tiles_write_all_err ==
    /\ pc = "write_all"
    /\ fs' = Append(fs, Descriptor(FALSE))
    /\ tiles_result' = "IOError"
    /\ pc' = "returned"
    /\ UNCHANGED <<overflow_checks, args, creator, new_result, level, col, row, grid, li>>

Next ==
    \/ \E in \in Inputs : new_from_rgb(in)
    \/ create_tiles
    \/ create_level
    \/ create_level_dir_err
    \/ create_level_tile
    \/ create_level_tile_err
    \/ create_level_tile_panic
    \/ create_tiles_file_create
    \/ create_tiles_file_create_err
    \/ create_tiles_write_all
    \/ create_tiles_write_all_err

Spec == Init /\ [][Next]_vars

-----------------------------------------------------------------------------
\* Properties

\* Extra levels past the last one at which get_dimensions is asked.
MaxProbe == 2

\* new_from_rgb has returned a TileCreator.
Constructed == new_result = "Ok"

SourceWidth == creator.image[1]
SourceHeight == creator.image[2]
Levels == 0 .. creator.levels - 1

\* The (col, row) of the grid of level L.
Grid(L) ==
    LET cnt == get_tile_count(creator, L) IN
    (0 .. cnt.cols - 1) \X (0 .. cnt.rows - 1)

\* The number of binary digits of n.
RECURSIVE BitLength(_)
BitLength(n) == IF n = 0 THEN 0 ELSE 1 + BitLength(n \div 2)

IsPowerOfTwo(n) == \E k \in 0..30 : 2^k = n

Min(a, b) == IF a <= b THEN a ELSE b

\* C2 as stated: the level count is the bit length of the larger dimension.
C2_LevelsIsBitLength ==
    Constructed => creator.levels = BitLength(Max(SourceWidth, SourceHeight))

\* C2 as amended: the level count is one more than the bit length of the larger
\* dimension minus one; it is the bit length of the larger dimension exactly when
\* that dimension is a power of two, and one more than it otherwise.
C2_LevelsIsBitLengthOfPredecessorPlusOne ==
    Constructed =>
        LET m == Max(SourceWidth, SourceHeight) IN
        /\ creator.levels = BitLength(m - 1) + 1
        /\ IsPowerOfTwo(m) => creator.levels = BitLength(m)
        /\ ~IsPowerOfTwo(m) => creator.levels = BitLength(m) + 1

C2_Witness ==
    /\ pc = "created"
    /\ creator.image = <<3, 2>>
    /\ creator.levels = 3
    /\ BitLength(3) = 2

\* C3: the level count is the smallest L >= 1 with 2^(L-1) >= max(width, height);
\* a 1x1 source has 1 level and a 5184x3456 source has 14.
C3_LevelsIsCeilLog2PlusOne ==
    Constructed =>
        LET m == Max(SourceWidth, SourceHeight)
            L == creator.levels
        IN
        /\ L >= 1
        /\ 2^(L - 1) >= m
        /\ L > 1 => 2^(L - 2) < m
        /\ creator.image = <<1, 1>> => L = 1
        /\ creator.image = <<TestWidth, TestHeight>> => L = 14

C3_Witness ==
    /\ pc = "created"
    /\ creator.image = <<TestWidth, TestHeight>>
    /\ creator.levels = 14

\* C4: at every level below levels, get_dimensions is the ceiling of the source
\* size times 2^-(levels-1-level) (the least w with w * 2^n >= W, likewise h);
\* the 5184x3456 source is (2, 1) at level 1; at a level from levels on it is the
\* error of check_level.
C4_DimensionsAreCeilings ==
    Constructed =>
        /\ \A L \in 0 .. creator.levels + MaxProbe :
              LET d == get_dimensions(creator, L) IN
              IF L < creator.levels
              THEN LET n == 2^(creator.levels - 1 - L) IN
                   /\ d.tag = "Ok"
                   /\ d.w * n >= SourceWidth /\ (d.w - 1) * n < SourceWidth
                   /\ d.h * n >= SourceHeight /\ (d.h - 1) * n < SourceHeight
              ELSE d = [tag |-> "UnexpectedError"]
        /\ creator.image = <<TestWidth, TestHeight>> =>
              get_dimensions(creator, 1) = [tag |-> "Ok", w |-> 2, h |-> 1]

C4_Witness ==
    /\ pc = "created"
    /\ creator.image = <<TestWidth, TestHeight>>
    /\ get_dimensions(creator, 1) = [tag |-> "Ok", w |-> 2, h |-> 1]
    /\ get_dimensions(creator, 14).tag = "UnexpectedError"

\* C5: the highest level has scale 1 and the dimensions of the source; level 0 is
\* at least 1x1 and no larger, in width and in height, than any other level.
C5_TopLevelIsSourceAndLevelZeroSmallest ==
    Constructed =>
        LET top == creator.levels - 1
            d0 == get_dimensions(creator, 0)
        IN
        /\ get_scale(creator, top) = [tag |-> "Ok", den |-> 1]
        /\ get_dimensions(creator, top) =
              [tag |-> "Ok", w |-> SourceWidth, h |-> SourceHeight]
        /\ d0.tag = "Ok" /\ d0.w >= 1 /\ d0.h >= 1
        /\ \A L \in Levels :
              LET d == get_dimensions(creator, L) IN d0.w <= d.w /\ d0.h <= d.h

C5_Witness ==
    /\ pc = "created"
    /\ creator.image = <<4, 3>>
    /\ creator.levels = 3
    /\ get_dimensions(creator, 2) = [tag |-> "Ok", w |-> 4, h |-> 3]
    /\ get_dimensions(creator, 0) = [tag |-> "Ok", w |-> 1, h |-> 1]

\* C6 as stated: new_from_rgb succeeds exactly when rgb_data.len() is
\* width * height * 3, and fails with IncorrectRGBInputDimensions otherwise.
C6_LengthMustMatch ==
    pc # "new" =>
        IF args.rgb_len = args.width * args.height * 3
        THEN new_result = "Ok"
        ELSE new_result = "IncorrectRGBInputDimensions"

\* a <= b as u32 values
ULessEq(a, b) == ~ULess(b, a)

\* None of the four subtractions of get_tile_bounds(L, c, r) goes below zero.
SubtractionsStayAboveZero(L, c, r) ==
    LET offset_x == IF c = 0 THEN 0 ELSE creator.tile_overlap
        offset_y == IF r = 0 THEN 0 ELSE creator.tile_overlap
        d == get_dimensions(creator, L)
    IN
    /\ ~SubOverflows(c * creator.tile_size, offset_x)
    /\ ~SubOverflows(r * creator.tile_size, offset_y)
    /\ ~SubOverflows(d.w, c * creator.tile_size - offset_x)
    /\ ~SubOverflows(d.h, r * creator.tile_size - offset_y)

\* C1 as stated: with tile_size > 0 and tile_overlap >= 0, every tile of every
\* level's grid has bounds with 0 <= x0 < x1 <= level_width and
\* 0 <= y0 < y1 <= level_height, and no subtraction goes below zero.
C1_TileBoundsInsideLevel ==
    (Constructed /\ creator.tile_size > 0 /\ creator.tile_overlap >= 0) =>
        \A L \in Levels : \A t \in Grid(L) :
            LET b == get_tile_bounds(creator, L, t[1], t[2])
                d == get_dimensions(creator, L)
            IN
            /\ SubtractionsStayAboveZero(L, t[1], t[2])
            /\ b.tag = "Ok"
            /\ ULess(b.x0, b.x1) /\ ULessEq(b.x1, d.w)
            /\ ULess(b.y0, b.y1) /\ ULessEq(b.y1, d.h)

\* C10 as stated: the tile (col, row) starts at 0 in column 0 and at
\* col * tile_size - tile_overlap otherwise (likewise for rows), and ends at
\* min((col + 1) * tile_size + tile_overlap, level_width) (likewise for rows).
C10_BoundsFormula ==
    Constructed =>
        \A L \in Levels : \A t \in Grid(L) :
            LET b == get_tile_bounds(creator, L, t[1], t[2])
                d == get_dimensions(creator, L)
                ts == creator.tile_size
                ov == creator.tile_overlap
            IN
            /\ b.tag = "Ok"
            /\ b.x0 >= 0 /\ b.x0 = (IF t[1] = 0 THEN 0 ELSE t[1] * ts - ov)
            /\ b.y0 >= 0 /\ b.y0 = (IF t[2] = 0 THEN 0 ELSE t[2] * ts - ov)
            /\ b.x1 = Min((t[1] + 1) * ts + ov, d.w)
            /\ b.y1 = Min((t[2] + 1) * ts + ov, d.h)

\* Every pixel of level L lies in the bounds of the tile (px div tile_size,
\* py div tile_size), and that tile is in the grid.  The pixels whose tile is
\* (c, r) are the block from (c * ts, r * ts) up to, excluded,
\* (min((c + 1) * ts, level_width), min((r + 1) * ts, level_height)): the block
\* must lie between the tile's bounds, and the last pixel's tile must exist.
LevelCovered(L) ==
    LET d == get_dimensions(creator, L)
        cnt == get_tile_count(creator, L)
        ts == creator.tile_size
    IN
    /\ (d.w - 1) \div ts < cnt.cols
    /\ (d.h - 1) \div ts < cnt.rows
    /\ \A t \in Grid(L) :
          LET b == get_tile_bounds(creator, L, t[1], t[2]) IN
          /\ b.tag = "Ok"
          /\ ULessEq(b.x0, t[1] * ts) /\ ULessEq(Min((t[1] + 1) * ts, d.w), b.x1)
          /\ ULessEq(b.y0, t[2] * ts) /\ ULessEq(Min((t[2] + 1) * ts, d.h), b.y1)
          /\ ULessEq(b.x1, d.w) /\ ULessEq(b.y1, d.h)

\* The tile written by the k-th operation is the crop of a level image of the
\* level's dimensions at exactly the tile's bounds.
TileIsCropAtBounds(k) ==
    LET e == fs[k]
        d == get_dimensions(creator, e.level)
    IN
    /\ e.li = <<d.w, d.h>>
    /\ e.crop = [x |-> e.bounds[1], y |-> e.bounds[2],
                 width |-> e.bounds[3] - e.bounds[1],
                 height |-> e.bounds[4] - e.bounds[2]]

\* C9 as stated: with tile_size > 0 and tile_overlap >= 0 the grid of every level
\* covers the level raster with no gap and no pixel out of range, and every tile
\* written is the crop of the level raster at exactly its bounds.
C9_TilesCoverLevel ==
    (Constructed /\ creator.tile_size > 0 /\ creator.tile_overlap >= 0) =>
        /\ \A L \in Levels : LevelCovered(L)
        /\ \A k \in DOMAIN fs : (fs[k].op = "save" /\ fs[k].ok) => TileIsCropAtBounds(k)

\* The error create_tiles returns when the operation e fails.
ErrorOf(e) == IF e.op = "save" THEN "ImageError" ELSE "IOError"

\* C7: a failed operation (creating a level directory, rendering, writing a tile)
\* is the last operation of the run: create_tiles has returned its error, nothing
\* was done after it (no tile, no directory, no retry) and no descriptor was
\* written.
C7_FirstFailureEndsRun ==
    /\ \A k \in DOMAIN fs :
          ~fs[k].ok =>
              /\ k = Len(fs)
              /\ pc = "returned"
              /\ tiles_result = ErrorOf(fs[k])
    /\ tiles_result \in {"ImageError", "UnexpectedError", "IOError"} =>
          /\ pc = "returned"
          /\ \A k \in DOMAIN fs : fs[k].op = "write_all" => ~fs[k].ok
          /\ \A k \in DOMAIN fs :
                (fs[k].op \in {"create_dir_all", "save"} /\ ~fs[k].ok) =>
                    \A j \in DOMAIN fs : fs[j].op \notin {"File::create", "write_all"}

C7_Witness ==
    /\ pc = "returned"
    /\ tiles_result = "ImageError"
    /\ Len(fs) >= 4
    /\ fs[Len(fs)].op = "save" /\ ~fs[Len(fs)].ok
    /\ level + 1 < creator.levels
    /\ col + 1 < grid[1]
    /\ \E k \in DOMAIN fs : fs[k].op = "save" /\ fs[k].ok

\* The operations before the k-th that touch level L.
DirsBefore(k, L) ==
    {i \in 1 .. k - 1 : fs[i].op = "create_dir_all" /\ fs[i].ok /\ fs[i].level = L}

SavesBefore(k, L, c, r) ==
    {i \in 1 .. k - 1 :
        fs[i].op = "save" /\ fs[i].ok /\ fs[i].level = L /\ fs[i].col = c /\ fs[i].row = r}

DescriptorWrites == {k \in DOMAIN fs : fs[k].op = "write_all" /\ fs[k].ok}

\* C8: the descriptor is written at most once; when it is written every level
\* 0..levels-1 has been processed in ascending order, its directory created before
\* its tiles, with exactly one tile file for every (col, row) of its grid and
\* for no other coordinates; the descriptor carries tile_size, tile_overlap and
\* the source's width and height.
C8_DescriptorAfterAllTiles ==
    /\ Cardinality(DescriptorWrites) <= 1
    /\ \A k \in DescriptorWrites :
          /\ fs[k].TileSize = args.tile_size
          /\ fs[k].Overlap = args.tile_overlap
          /\ fs[k].Width = args.width
          /\ fs[k].Height = args.height
          /\ \A L \in Levels :
                /\ Cardinality(DirsBefore(k, L)) = 1
                /\ \A t \in Grid(L) :
                      /\ Cardinality(SavesBefore(k, L, t[1], t[2])) = 1
                      /\ \A i \in SavesBefore(k, L, t[1], t[2]) :
                            \A j \in DirsBefore(k, L) : j < i
          /\ \A i \in 1 .. k - 1 :
                fs[i].op = "save" =>
                    /\ fs[i].level \in Levels
                    /\ <<fs[i].col, fs[i].row>> \in Grid(fs[i].level)
          /\ \A i \in 1 .. k - 2 :
                (fs[i].op \in {"create_dir_all", "save"}
                 /\ fs[i + 1].op \in {"create_dir_all", "save"}) =>
                    fs[i].level <= fs[i + 1].level

C8_Witness ==
    /\ pc = "returned"
    /\ tiles_result = "Ok"
    /\ Cardinality(DescriptorWrites) = 1
    /\ creator.levels >= 3
    /\ Cardinality(Grid(creator.levels - 1)) >= 6
    /\ creator.tile_overlap > 0

=============================================================================
